---- MODULE Spec2Model ----
(***************************************************************************)
(* A model of the streaming voice-activity detector of src/src/index.ts.   *)
(*                                                                         *)
(* index.ts holds the options, their validation, the AudioNodeVAD wrapper  *)
(* (pause / start, the speaking and listening flags, the callbacks handed  *)
(* to the frame processor) and the port.onmessage handler that hands every *)
(* AudioFrame message to FrameProcessor.process.  The FrameProcessor       *)
(* itself (./frame-processor) is not among the sources: its state machine  *)
(* is modelled from section 4.1 of the specification.                      *)
(*                                                                         *)
(* Speech scores and thresholds are integers in hundredths (0.35 is 35).   *)
(* A frame is identified by its arrival number 1, 2, 3, ...                *)
(***************************************************************************)
EXTENDS Integers, Sequences, FiniteSets, TLC

\* ------------------------------------------------------------------ bounds
\* Number of AudioFrame messages of a freely chosen stream.
MaxFrames == 3
\* Number of process calls that may be awaiting the probability source.
MaxInflight == 2
\* Number of inference failures in one run.
MaxFailures == 1
\* Number of frames delivered while the engine is paused.
MaxSkipped == 1
\* Ranges of the frame-count options of a freely chosen configuration.
MaxRedemption == 1
MaxPad == 1
MaxMinSpeech == 3

\* ----------------------------------------------------------------- options
\* defaultVadOptions, the numeric options the engine reads.
defaultVadOptions ==
  [ positiveSpeechThreshold |-> 50,
    negativeSpeechThreshold |-> 50 - 15,
    preSpeechPadFrames      |-> 1,
    redemptionFrames        |-> 2,
    frameSamples            |-> 1536,
    minSpeechFrames         |-> 3 ]

\* The configurations explored with a free stream: the default thresholds,
\* every combination of the three frame counts within the bounds.
FreeOptions ==
  [ positiveSpeechThreshold : {defaultVadOptions.positiveSpeechThreshold},
    negativeSpeechThreshold : {defaultVadOptions.negativeSpeechThreshold},
    preSpeechPadFrames      : 0..MaxPad,
    redemptionFrames        : 0..MaxRedemption,
    frameSamples            : {defaultVadOptions.frameSamples},
    minSpeechFrames         : 1..MaxMinSpeech ]

\* The configurations handed to the constructor when validation is examined:
\* thresholds below, at, inside and above [0, 1] and on either side of each
\* other, frame counts from one below their smallest allowed value, a
\* recommended and an unusual frame size.
AnyOptions ==
  [ positiveSpeechThreshold : {-10, 0, 50, 100, 150},
    negativeSpeechThreshold : {-10, 0, 35, 60, 100, 150},
    preSpeechPadFrames      : -1..MaxPad,
    redemptionFrames        : -1..MaxRedemption,
    frameSamples            : {defaultVadOptions.frameSamples, 1000},
    minSpeechFrames         : 0..MaxMinSpeech ]

\* Scores a free stream draws from: below the negative threshold, equal to
\* it, equal to the positive threshold.
Scores == {10, 35, 50}

\* The two fixed streams of the specification's scenarios (section 8), and
\* the configurations they are run with.
ScenarioLong  == <<10, 10, 90, 90, 90, 10, 10, 10>>
ScenarioShort == <<10, 10, 90, 90, 10, 10, 10>>
ScenarioOptions ==
  { defaultVadOptions, [defaultVadOptions EXCEPT !.minSpeechFrames = 5] }

VARIABLES
  options,            \* the configuration, fixed at construction
  constructed,        \* the AudioNodeVAD constructor has run
  logged,             \* what validateOptions wrote to the log, in order
  script,             \* <<>>: free stream; otherwise the scores of frames 1..n
  arrived,            \* number of AudioFrame messages delivered so far
  pending,            \* frames whose process call awaits the probability source
  processed,          \* [frame, score] in the order inference completed
  skipped,            \* frames handed to process while the engine was paused
  failed,             \* frames whose process call rejected, in order
  engineState,        \* "Idle" or "Active"
  padBuffer,          \* PadBuffer: recent frames, oldest first
  accumulator,        \* Accumulator: frames of the segment in progress
  leadIn,             \* number of pad-seeded frames at the head of accumulator
  redemptionCounter,  \* RedemptionCounter
  paused,             \* the frame processor is paused
  resets,             \* number of resetState commands sent to the source
  listening,          \* AudioNodeVAD.listening
  speaking,           \* AudioNodeVAD.speaking
  events,             \* every callback invocation, in order
  lastCall,           \* "none", "start" or "pause": the last control call
  pauseInSegment      \* "paused": pause() came while the segment was open and
                      \* no frame since; "resumed": start() followed it, in
                      \* the segment that is open or was finalized last

engineVars == <<engineState, padBuffer, accumulator, leadIn, redemptionCounter>>
vars == <<options, script, constructed, logged, arrived, pending, processed, skipped, failed,
          engineState, padBuffer, accumulator, leadIn, redemptionCounter,
          paused, resets, listening, speaking, events, lastCall,
          pauseInSegment>>

\* -------------------------------------------------------------- validation
RECOMMENDED_FRAME_SAMPLES == {512, 1024, 1536}

Log(level, message) == [level |-> level, message |-> message]
When(cond, entry) == IF cond THEN <<entry>> ELSE <<>>

\* validateOptions: the log lines it writes, in order.  Thresholds are in
\* hundredths, so 1 is 100.
validateOptions(o) ==
  When(o.frameSamples \notin RECOMMENDED_FRAME_SAMPLES,
       Log("warn", "You are using an unusual frame size"))
  \o When(o.positiveSpeechThreshold < 0 \/ o.negativeSpeechThreshold > 100,
          Log("error", "postiveSpeechThreshold should be a number between 0 and 1"))
  \o When(\/ o.negativeSpeechThreshold < 0
          \/ o.negativeSpeechThreshold > o.positiveSpeechThreshold,
          Log("error", "negativeSpeechThreshold should be between 0 and postiveSpeechThreshold"))
  \o When(o.preSpeechPadFrames < 0,
          Log("error", "preSpeechPadFrames should be positive"))
  \o When(o.redemptionFrames < 0,
          Log("error", "preSpeechPadFrames should be positive"))

\* ------------------------------------------------------------- event sink
Ev(type, frame, audio, probs) ==
  [type |-> type, frame |-> frame, audio |-> audio, probs |-> probs]

\* The engine's state and outputs as one value, so that the per-frame step
\* is a function.
World ==
  [ state |-> engineState, pad |-> padBuffer, acc |-> accumulator,
    leadIn |-> leadIn, counter |-> redemptionCounter, resets |-> resets,
    speaking |-> speaking, events |-> events ]

InitWorld ==
  [ state |-> "Idle", pad |-> <<>>, acc |-> <<>>, leadIn |-> 0, counter |-> 0,
    resets |-> 0, speaking |-> FALSE, events |-> <<>> ]

\* onFrameProcessed: this.options.onFrameProcessed
onFrameProcessed(w, f, score) ==
  [w EXCEPT !.events = Append(@, Ev("onFrameProcessed", f, <<>>, score))]

\* signalSpeechStart: () => { this.speaking = true; this.options.onSpeechStart() }
signalSpeechStart(w, f) ==
  [w EXCEPT !.speaking = TRUE,
            !.events = Append(@, Ev("onSpeechStart", f, <<>>, 0))]

\* A slip in the wiring: the end callback invokes onSpeechStart.
signalSpeechEndCallsStart(w, f, audio) ==
  [w EXCEPT !.speaking = FALSE,
            !.events = Append(@, Ev("onSpeechStart", f, <<>>, 0))]

\* signalSpeechEnd: (audio) => { this.speaking = false; this.options.onSpeechEnd(audio) }
signalSpeechEnd(w, f, audio) ==
  [w EXCEPT !.speaking = FALSE,
            !.events = Append(@, Ev("onSpeechEnd", f, audio, 0))]

\* A slip in the wiring: the misfire callback is bound to the speech-end
\* handler, which receives the accumulated audio.
signalMisfireAsSpeechEnd(w, f) ==
  [w EXCEPT !.events = Append(@, Ev("onSpeechEnd", f, w.acc, 0))]

\* signalMisfire: this.options.signalMisfire
signalMisfire(w, f) ==
  [w EXCEPT !.events = Append(@, Ev("signalMisfire", f, <<>>, 0))]

\* A slip in the wiring: minSpeechFrames is given the value of the option
\* on the line above it.
frameProcessorOptionsMinFromPad(o) ==
  [ positiveSpeechThreshold |-> o.positiveSpeechThreshold,
    negativeSpeechThreshold |-> o.negativeSpeechThreshold,
    redemptionFrames        |-> o.redemptionFrames,
    preSpeechPadFrames      |-> o.preSpeechPadFrames,
    minSpeechFrames         |-> o.preSpeechPadFrames ]

\* A slip in the wiring: preSpeechPadFrames is given the value of the option
\* on the line above it.
frameProcessorOptionsPadFromRedemption(o) ==
  [ positiveSpeechThreshold |-> o.positiveSpeechThreshold,
    negativeSpeechThreshold |-> o.negativeSpeechThreshold,
    redemptionFrames        |-> o.redemptionFrames,
    preSpeechPadFrames      |-> o.redemptionFrames,
    minSpeechFrames         |-> o.minSpeechFrames ]

\* The options object handed to new FrameProcessor(...).
frameProcessorOptions(o) ==
  [ positiveSpeechThreshold |-> o.positiveSpeechThreshold,
    negativeSpeechThreshold |-> o.negativeSpeechThreshold,
    redemptionFrames        |-> o.redemptionFrames,
    preSpeechPadFrames      |-> o.preSpeechPadFrames,
    minSpeechFrames         |-> o.minSpeechFrames ]

\* --------------------------------------------- frame processor (section 4.1)
\* Exclusive comparison.
MeetsStrictly(score, threshold) == score > threshold

\* Thresholds use inclusive comparison at both boundaries.
Meets(score, threshold) == score >= threshold

\* Push into PadBuffer, never holding more than its capacity.
PushPad(pad, f, cap) ==
  LET q == Append(pad, f) IN IF Len(q) > cap THEN Tail(q) ELSE q

\* Idle, steps 3 to 5.
IdleStep(w, o, f, score) ==
  LET pad == PushPad(w.pad, f, o.preSpeechPadFrames) IN
  IF Meets(score, o.positiveSpeechThreshold)
  THEN signalSpeechStart(
         [w EXCEPT !.state = "Active",
                   !.acc = Append(pad, f),
                   !.leadIn = Len(pad),
                   !.counter = o.redemptionFrames,
                   !.pad = <<>>], f)
  ELSE [w EXCEPT !.pad = pad]

\* The probability source is reset only when the segment is delivered.
FinalizeResetOnSpeechEnd(w, o, f) ==
  LET short == Len(w.acc) - w.leadIn < o.minSpeechFrames
      told  == IF short THEN signalMisfire(w, f)
                        ELSE signalSpeechEnd(w, f, w.acc)
  IN [told EXCEPT !.resets = IF short THEN @ ELSE @ + 1,
                  !.acc = <<>>, !.leadIn = 0,
                  !.state = "Idle", !.pad = <<>>]

\* Active, step 5: the segment is finalized.
Finalize(w, o, f) ==
  LET told == IF Len(w.acc) - w.leadIn < o.minSpeechFrames
              THEN signalMisfire(w, f)
              ELSE signalSpeechEnd(w, f, w.acc)
  IN [told EXCEPT !.resets = @ + 1, !.acc = <<>>, !.leadIn = 0,
                  !.state = "Idle", !.pad = <<>>]

\* Active, steps 2 to 5.
ActiveStep(w, o, f, score) ==
  LET w1 == [w EXCEPT !.acc = Append(@, f),
                      !.counter = IF Meets(score, o.negativeSpeechThreshold)
                                  THEN o.redemptionFrames
                                  ELSE @ - 1]
  IN IF w1.counter = 0 THEN Finalize(w1, o, f) ELSE w1

\* process, after the probability source answered `score` for frame f; o is
\* the options object the frame processor was constructed with.
ProcessFrame(w, o, f, score) ==
  LET w1 == onFrameProcessed(w, f, score) IN
  IF w.state = "Idle" THEN IdleStep(w1, o, f, score)
                      ELSE ActiveStep(w1, o, f, score)

\* ------------------------------------------------------------------- Init
Fresh ==
  /\ arrived = 0
  /\ pending = {}
  /\ processed = <<>>
  /\ skipped = {}
  /\ failed = <<>>
  /\ engineState = InitWorld.state
  /\ padBuffer = InitWorld.pad
  /\ accumulator = InitWorld.acc
  /\ leadIn = InitWorld.leadIn
  /\ redemptionCounter = InitWorld.counter
  /\ paused \in BOOLEAN
  /\ resets = InitWorld.resets
  /\ listening = FALSE
  /\ speaking = InitWorld.speaking
  /\ events = InitWorld.events
  /\ lastCall = "none"
  /\ pauseInSegment = "no"

\* After new AudioNodeVAD(ctx, options) and init().
Constructed ==
  /\ constructed = TRUE
  /\ logged = validateOptions(options)
  /\ Fresh

\* A free stream under every configuration within the bounds.
Init ==
  /\ script = <<>>
  /\ options \in FreeOptions
  /\ Constructed

\* The scenario streams under the scenario configurations.
InitScenario ==
  /\ script \in {ScenarioLong, ScenarioShort}
  /\ options \in ScenarioOptions
  /\ Constructed

\* Any configuration, valid or not, about to be handed to the constructor.
InitValidate ==
  /\ script = <<>>
  /\ options \in AnyOptions
  /\ constructed = FALSE
  /\ logged = <<>>
  /\ Fresh

FrameLimit == IF script = <<>> THEN MaxFrames ELSE Len(script)

\* ---------------------------------------------------------------- actions
\* vadNode.port.onmessage: an AudioFrame message is handed to process at
\* once, whatever is still in flight; any other message is ignored.  process
\* returns at once when paused and otherwise queries the probability source.
OnMessage ==
  \E message \in {"AudioFrame", "other"} :
    IF message = "AudioFrame"
    THEN /\ arrived < FrameLimit
         /\ Cardinality(pending) < MaxInflight
         /\ arrived' = arrived + 1
         /\ IF paused
            THEN /\ Cardinality(skipped) < MaxSkipped
                 /\ skipped' = skipped \cup {arrived + 1}
                 /\ pauseInSegment' =
                      IF pauseInSegment = "paused" THEN "no" ELSE pauseInSegment
                 /\ UNCHANGED pending
            ELSE /\ pending' = pending \cup {arrived + 1}
                 /\ UNCHANGED <<skipped, pauseInSegment>>
         /\ UNCHANGED <<options, script, constructed, logged, processed, failed, engineVars, paused,
                        resets, listening, speaking, events, lastCall>>
    ELSE UNCHANGED vars

\* The probability source answers for a pending frame and process runs its
\* steps to the end.
InferDone ==
  \E f \in pending :
    \E score \in (IF script = <<>> THEN Scores ELSE {script[f]}) :
      LET w == ProcessFrame(World, frameProcessorOptions(options), f, score) IN
      /\ pending' = pending \ {f}
      /\ processed' = Append(processed, [frame |-> f, score |-> score])
      /\ engineState' = w.state
      /\ padBuffer' = w.pad
      /\ accumulator' = w.acc
      /\ leadIn' = w.leadIn
      /\ redemptionCounter' = w.counter
      /\ resets' = w.resets
      /\ speaking' = w.speaking
      /\ events' = w.events
      /\ pauseInSegment' =
           IF pauseInSegment = "resumed" /\ engineState = "Active"
           THEN "resumed" ELSE "no"
      /\ UNCHANGED <<options, script, constructed, logged, arrived, skipped, failed, paused,
                     listening, lastCall>>

\* The frame is pushed into PadBuffer before the probability source is
\* queried, so a failed query leaves it there.
InferFailAfterPush ==
  \E f \in pending :
    /\ Len(failed) < MaxFailures
    /\ pending' = pending \ {f}
    /\ failed' = Append(failed, f)
    /\ padBuffer' = Append(padBuffer, f)
    /\ UNCHANGED <<options, script, constructed, logged, arrived, processed, skipped, engineState,
                   accumulator, leadIn, redemptionCounter,
                   paused, resets, listening, speaking, events, lastCall,
                   pauseInSegment>>

\* The probability source fails for a pending frame: process rejects, and the
\* rejection reaches the handler that awaited it.
InferFail ==
  \E f \in pending :
    /\ Len(failed) < MaxFailures
    /\ pending' = pending \ {f}
    /\ failed' = Append(failed, f)
    /\ UNCHANGED <<options, script, constructed, logged, arrived, processed, skipped, engineVars,
                   paused, resets, listening, speaking, events, lastCall,
                   pauseInSegment>>

\* pause also discards the segment in progress.
FrameProcessorPauseDiscards ==
  /\ paused' = TRUE
  /\ engineState' = "Idle"
  /\ padBuffer' = <<>>
  /\ accumulator' = <<>>
  /\ leadIn' = 0
  /\ redemptionCounter' = 0
  /\ UNCHANGED <<resets, speaking, events>>

\* FrameProcessor.pause: suspends processing without discarding state.
FrameProcessorPause ==
  /\ paused' = TRUE
  /\ UNCHANGED <<engineVars, resets, speaking, events>>

\* FrameProcessor.resume: re-enables processing from the same state.
FrameProcessorResume ==
  /\ paused' = FALSE
  /\ UNCHANGED <<engineVars, resets, speaking, events>>

\* pause without the call of this.frameProcessor.pause().
PauseFlagOnly ==
  /\ listening' = FALSE
  /\ lastCall' = "pause"
  /\ UNCHANGED <<options, script, constructed, logged, arrived, pending, processed, skipped, failed,
                 engineVars, paused, resets, speaking, events, pauseInSegment>>

\* AudioNodeVAD.pause
Pause ==
  /\ FrameProcessorPause
  /\ listening' = FALSE
  /\ lastCall' = "pause"
  /\ pauseInSegment' =
       IF pauseInSegment = "no" /\ engineState = "Active" /\ pending = {}
       THEN "paused" ELSE pauseInSegment
  /\ UNCHANGED <<options, script, constructed, logged, arrived, pending, processed, skipped, failed>>

\* AudioNodeVAD.start
Start ==
  /\ FrameProcessorResume
  /\ lastCall' = "start"
  /\ pauseInSegment' =
       IF pauseInSegment = "paused" THEN "resumed" ELSE pauseInSegment
  /\ UNCHANGED <<options, script, constructed, logged, arrived, pending, processed, skipped, failed,
                 listening>>

\* AudioNodeVAD.constructor: validateOptions(options)
Construct ==
  /\ ~constructed
  /\ constructed' = TRUE
  /\ logged' = logged \o validateOptions(options)
  /\ UNCHANGED <<options, script, arrived, pending, processed, skipped, failed,
                 engineVars, paused, resets, listening, speaking, events,
                 lastCall, pauseInSegment>>

Next == OnMessage \/ InferDone \/ InferFail \/ Pause \/ Start

Spec == Init /\ [][Next]_vars

ScenarioSpec == InitScenario /\ [][Next]_vars

NextValidate == Construct

ValidateSpec == InitValidate /\ [][NextValidate]_vars

\* ------------------------------------------------------- reading the logs
Max(S) == CHOOSE x \in S : \A y \in S : y <= x
Min2(a, b) == IF a <= b THEN a ELSE b
Final == {"onSpeechEnd", "signalMisfire"}
Segmental == Final \cup {"onSpeechStart"}

\* The events the step being taken appends.
NewEvents == SubSeq(events', Len(events) + 1, Len(events'))
HasType(evs, T) == \E i \in 1..Len(evs) : evs[i].type \in T

\* Position of frame f in the order of processing.
PosOf(f) == CHOOSE i \in 1..Len(processed) : processed[i].frame = f
\* Index of the last event before index j whose type is in T, or 0.
LastBefore(j, T) ==
  LET S == {i \in 1..(j - 1) : events[i].type \in T}
  IN IF S = {} THEN 0 ELSE Max(S)
FramesOf(seq) == [i \in 1..Len(seq) |-> seq[i].frame]
StartFinalOnly(evs) == SelectSeq(evs, LAMBDA e : e.type \in Segmental)

\* ---------------------------------------------------------------- claims
\* C1: onSpeechEnd and signalMisfire are emitted only by a frame processed
\* while the engine is Active, onSpeechStart only by a frame processed while
\* it is Idle; so the start and finalization events alternate, beginning
\* with a start: between two starts there is exactly one end or misfire.
C1_EventsMatchState ==
  [][ /\ HasType(NewEvents, Final) => engineState = "Active"
      /\ HasType(NewEvents, {"onSpeechStart"}) => engineState = "Idle"
      /\ LET seg == StartFinalOnly(events') IN
           \A i \in 1..Len(seg) :
             IF i % 2 = 1 THEN seg[i].type = "onSpeechStart"
                          ELSE seg[i].type \in Final ]_vars

\* Two segments were started, the first one finalized in between.
C1_Witness ==
  LET seg == StartFinalOnly(events) IN
    /\ Len(seg) >= 3
    /\ seg[1].type = "onSpeechStart"
    /\ seg[2].type \in Final
    /\ seg[3].type = "onSpeechStart"

\* The audio C2 expects for the onSpeechEnd at index j of events: the lead-in
\* frames that precede the onset frame, at most preSpeechPadFrames of them and
\* no more than were seen since the engine last became Idle, then every frame
\* from the onset frame to the finalizing frame, in the order of processing.
ExpectedAudio(j) ==
  LET s        == LastBefore(j, {"onSpeechStart"})
      prev     == LastBefore(s, Final)
      onsetPos == PosOf(events[s].frame)
      idleFrom == IF prev = 0 THEN 0 ELSE PosOf(events[prev].frame)
      k        == Min2(options.preSpeechPadFrames, onsetPos - 1 - idleFrom)
      endPos   == PosOf(events[j].frame)
  IN [i \in 1..(endPos - onsetPos + k + 1) |-> processed[onsetPos - k + i - 1].frame]

\* C2: the audio delivered by onSpeechEnd is the lead-in frames that precede
\* the onset frame followed by the frames from onset to finalization, each
\* once.
C2_DeliveredAudio ==
  \A j \in 1..Len(events) :
    events[j].type = "onSpeechEnd" => events[j].audio = ExpectedAudio(j)

\* Number of frames from the onset frame to the frame of the finalization
\* event at index j, both included, read from the order of processing.
PostOnsetCount(j) ==
  PosOf(events[j].frame)
    - PosOf(events[LastBefore(j, {"onSpeechStart"})].frame) + 1

\* C3: a segment finalized with fewer than minSpeechFrames frames counted from
\* its onset frame gives exactly one signalMisfire, no onSpeechEnd, and no
\* callback of the finalizing frame receives audio.
C3_ShortSegmentMisfires ==
  \A j \in 1..Len(events) :
    (events[j].type \in Final /\ PostOnsetCount(j) < options.minSpeechFrames)
      => /\ events[j].type = "signalMisfire"
         /\ \A i \in 1..Len(events) :
              events[i].frame = events[j].frame
                => /\ events[i].audio = <<>>
                   /\ events[i].type \in Final => i = j

\* A segment was finalized short of minSpeechFrames.
C3_Witness ==
  \E j \in 1..Len(events) :
    /\ events[j].type = "signalMisfire"
    /\ PostOnsetCount(j) < options.minSpeechFrames

\* C4: at most one process call is in flight at any time, and frames are
\* processed in arrival order.
C4_OneCallInFlight ==
  /\ Cardinality(pending) <= 1
  /\ \A i \in 1..Len(processed) : \A j \in 1..Len(processed) :
       i < j => processed[i].frame < processed[j].frame

Last(seq) == seq[Len(seq)]
Range(seq) == {seq[i] : i \in 1..Len(seq)}

\* C5: when the probability source fails for a frame, process reports the
\* failure to its caller, no event is ever emitted for that frame, and the
\* engine's state, buffers, counter and outputs are left as they were.
C5_FailureLeavesState ==
  [][ /\ failed' # failed
        => /\ Len(failed') = Len(failed) + 1
           /\ Last(failed') \in pending
           /\ Last(failed') \notin pending'
           /\ UNCHANGED <<engineVars, paused, resets, speaking, events, processed>>
      /\ \A i \in 1..Len(events') : events'[i].frame \notin Range(failed') ]_vars

\* An inference failed inside a segment that is still open, and a later
\* frame was processed after it.
C5_Witness ==
  /\ failed # <<>>
  /\ engineState = "Active"
  /\ \E i \in 1..Len(processed) : processed[i].frame > failed[1]

\* The run of the engine over a sequence of processed frames with no pause,
\* resume, failure or skipped frame in it.
RECURSIVE Replay(_, _)
Replay(o, seq) ==
  IF seq = <<>> THEN InitWorld
  ELSE ProcessFrame(Replay(o, SubSeq(seq, 1, Len(seq) - 1)), o,
                    Last(seq).frame, Last(seq).score)

\* C6: whatever pause() and start() calls a run holds, its events, delivered
\* audio, state, buffers and counter are those of the run over the same
\* processed frames with no pause or resume; pause emits nothing itself.
C6_PauseResumeTransparent ==
  World = Replay(frameProcessorOptions(options), processed)

\* pause() and then start() came inside a segment with no frame delivered in
\* between, no frame was ever skipped or failed, and that segment ended with
\* onSpeechEnd.
C6_Witness ==
  /\ pauseInSegment = "resumed"
  /\ skipped = {}
  /\ failed = <<>>
  /\ events # <<>>
  /\ Last(events).type = "onSpeechEnd"

WorldNext ==
  [ state |-> engineState', pad |-> padBuffer', acc |-> accumulator',
    leadIn |-> leadIn', counter |-> redemptionCounter', resets |-> resets',
    speaking |-> speaking', events |-> events' ]

\* C7: after pause() the engine is paused; a frame handed to process while it
\* is paused causes no query, no event and no change of state, buffers or
\* counter; a frame in flight when the engine is paused still completes, with
\* the state update and events it would have had.
C7_PausedFramesIgnored ==
  [][ /\ lastCall' = "pause" => paused'
      /\ (paused /\ arrived' # arrived)
           => /\ skipped' = skipped \cup {arrived'}
              /\ UNCHANGED <<pending, processed, engineVars, resets, speaking,
                             events>>
      /\ (paused /\ pending' # pending /\ failed' = failed)
           => /\ Len(processed') = Len(processed) + 1
              /\ Last(processed').frame \in pending
              /\ WorldNext = ProcessFrame(World, frameProcessorOptions(options),
                                          Last(processed').frame,
                                          Last(processed').score) ]_vars

\* pause() came while a frame was in flight, and another frame was handed to
\* process after it.
C7_Witness ==
  /\ paused
  /\ lastCall = "pause"
  /\ pending # {}
  /\ skipped # {}

\* C8: in Idle a frame whose score equals positiveSpeechThreshold starts a
\* segment; in Active a frame whose score equals negativeSpeechThreshold sets
\* RedemptionCounter to redemptionFrames.
C8_ThresholdsInclusive ==
  [][ processed' # processed
        => LET score == Last(processed').score IN
           /\ (engineState = "Idle" /\ score = options.positiveSpeechThreshold)
                => /\ engineState' = "Active"
                   /\ HasType(NewEvents, {"onSpeechStart"})
           /\ (engineState = "Active" /\ score = options.negativeSpeechThreshold)
                => redemptionCounter' = options.redemptionFrames ]_vars

\* A frame at the positive threshold started a segment and the next one, at
\* the negative threshold, kept it open with the counter reset.
C8_Witness ==
  /\ Len(processed) = 2
  /\ processed[1].score = options.positiveSpeechThreshold
  /\ processed[2].score = options.negativeSpeechThreshold
  /\ options.negativeSpeechThreshold < options.positiveSpeechThreshold
  /\ options.redemptionFrames >= 1
  /\ engineState = "Active"
  /\ redemptionCounter = options.redemptionFrames

\* Frames 1..n, all of them, were processed in arrival order.
InOrder(n) == FramesOf(processed) = [i \in 1..n |-> i]

\* C9: the default configuration on ScenarioLong: onSpeechStart on frame 3,
\* the counter 2 after frame 5, 1 after frame 6 and 0 after frame 7,
\* onSpeechEnd on frame 7 with frames 2..7, no misfire, Idle for frame 8.
C9_DefaultScenario ==
  (options = defaultVadOptions /\ script = ScenarioLong)
    => /\ InOrder(2) => (engineState = "Idle" /\ StartFinalOnly(events) = <<>>)
       /\ InOrder(3) => StartFinalOnly(events) = <<Ev("onSpeechStart", 3, <<>>, 0)>>
       /\ InOrder(5) => (engineState = "Active" /\ redemptionCounter = 2)
       /\ InOrder(6) => (engineState = "Active" /\ redemptionCounter = 1)
       /\ InOrder(7) => (engineState = "Idle" /\ redemptionCounter = 0)
       /\ (InOrder(7) \/ InOrder(8))
            => StartFinalOnly(events) =
                 << Ev("onSpeechStart", 3, <<>>, 0),
                    Ev("onSpeechEnd", 7, <<2, 3, 4, 5, 6, 7>>, 0) >>
       /\ InOrder(8) => engineState = "Idle"

\* C10: with minSpeechFrames = 5 and redemptionFrames = 2, ScenarioLong (five
\* frames from onset to finalization) ends with onSpeechEnd and ScenarioShort
\* (four) ends with signalMisfire and delivers no audio.
C10_MinimumLengthInclusive ==
  options = [defaultVadOptions EXCEPT !.minSpeechFrames = 5]
    => /\ (script = ScenarioLong /\ (InOrder(7) \/ InOrder(8)))
            => /\ FramesOf(StartFinalOnly(events)) = <<3, 7>>
               /\ StartFinalOnly(events)[1].type = "onSpeechStart"
               /\ StartFinalOnly(events)[2].type = "onSpeechEnd"
       /\ (script = ScenarioShort /\ (InOrder(6) \/ InOrder(7)))
            => /\ StartFinalOnly(events) =
                    << Ev("onSpeechStart", 3, <<>>, 0),
                       Ev("signalMisfire", 6, <<>>, 0) >>
               /\ \A i \in 1..Len(events) : events[i].audio = <<>>

\* ScenarioLong with minSpeechFrames = 5 was processed through its
\* finalization on frame 7.
C10_Witness ==
  /\ options = [defaultVadOptions EXCEPT !.minSpeechFrames = 5]
  /\ script = ScenarioLong
  /\ InOrder(7)
  /\ Last(events).type = "onSpeechEnd"

\* C11: every processed frame has exactly one onFrameProcessed event, which
\* comes before the other events of that frame, and every event of a frame
\* comes before every event of a frame that arrived after it.
C11_EventsInFrameOrder ==
  /\ \A k \in 1..Len(processed) :
       Cardinality({i \in 1..Len(events) :
                      /\ events[i].type = "onFrameProcessed"
                      /\ events[i].frame = processed[k].frame}) = 1
  /\ \A i \in 1..Len(events) : \A j \in 1..Len(events) :
       /\ (i < j /\ events[i].frame = events[j].frame)
            => events[j].type # "onFrameProcessed"
       /\ i < j => events[i].frame <= events[j].frame

\* A configuration that breaks a stated constraint: 0 <= negative <=
\* positive <= 1, redemptionFrames >= 0, preSpeechPadFrames >= 0,
\* minSpeechFrames >= 1.
ViolatesConstraints(o) ==
  \/ o.positiveSpeechThreshold < 0
  \/ o.positiveSpeechThreshold > 100
  \/ o.negativeSpeechThreshold < 0
  \/ o.negativeSpeechThreshold > o.positiveSpeechThreshold
  \/ o.redemptionFrames < 0
  \/ o.preSpeechPadFrames < 0
  \/ o.minSpeechFrames < 1

\* C12: construction reports an error, before any frame is processed, for
\* exactly the configurations that break a stated constraint.
C12_ValidationComplete ==
  constructed
    => /\ processed = <<>>
       /\ (\E i \in 1..Len(logged) : logged[i].level = "error")
            <=> ViolatesConstraints(options)

\* Position, in the order of processing, of the frame that last finalized a
\* segment, or 0: the frames after it were seen since the engine became Idle.
IdleSince ==
  LET j == LastBefore(Len(events) + 1, Final)
  IN IF j = 0 THEN 0 ELSE PosOf(events[j].frame)

TrailingLow ==
  Max({k \in 0..Len(processed) :
         \A i \in (Len(processed) - k + 1)..Len(processed) :
           processed[i].score < options.negativeSpeechThreshold})

\* C15: a segment does not stay open through silence: the engine is never
\* still Active after max(1, redemptionFrames) frames in a row below
\* negativeSpeechThreshold.
C15_SilenceClosesSegment ==
  engineState = "Active" => TrailingLow < Max({1, options.redemptionFrames})

\* C16: resetState is commanded exactly once by every step that finalizes a
\* segment, with onSpeechEnd or with signalMisfire, and by no other step.
C16_ResetAtFinalization ==
  [][ resets' = resets +
        (IF \/ (engineState = "Active" /\ engineState' = "Idle")
            \/ HasType(NewEvents, Final)
         THEN 1 ELSE 0) ]_vars

\* A segment that was paused and resumed ended with a misfire, and the
\* source was reset once.
C16_Witness ==
  /\ pauseInSegment = "resumed"
  /\ events # <<>>
  /\ Last(events).type = "signalMisfire"
  /\ resets = 1

NoDuplicates(seq) ==
  \A i \in 1..Len(seq) : \A j \in 1..Len(seq) : i < j => seq[i] # seq[j]

\* C17: no frame is delivered twice: not within one onSpeechEnd buffer, and
\* not in the buffers of two segments.
C17_NoFrameTwice ==
  \A i \in 1..Len(events) :
    events[i].type = "onSpeechEnd"
      => /\ NoDuplicates(events[i].audio)
         /\ \A j \in 1..Len(events) :
              (i < j /\ events[j].type = "onSpeechEnd")
                => Range(events[i].audio) \cap Range(events[j].audio) = {}

\* C18: AudioNodeVAD.speaking is true exactly when the engine is Active.
C18_SpeakingMirrorsActive ==
  speaking = (engineState = "Active")

\* C19: AudioNodeVAD.listening is true exactly when the last control call
\* was start().
C19_ListeningMirrorsStart ==
  listening = (lastCall = "start")

\* C20: RedemptionCounter stays within 0..redemptionFrames, and is at least 1
\* while the engine is Active when redemptionFrames >= 1.
C20_CounterInRange ==
  /\ redemptionCounter \in 0..options.redemptionFrames
  /\ (engineState = "Active" /\ options.redemptionFrames >= 1)
       => redemptionCounter >= 1

====
